---- MODULE Spec2Model ----
(***************************************************************************)
(* Model of the streaming job search of Theo-Job-Ai:                       *)
(*   src/src/job_finder.py  JobFinder (search_jobs, _select_best_jobs,     *)
(*                          _ensure_job_contacts, _infer_email)            *)
(*   src/app.py             search_jobs_api, save_jobs_cache,              *)
(*                          load_jobs_cache, get_jobs_results_api          *)
(***************************************************************************)
EXTENDS Integers, Sequences, FiniteSets, TLC

(***************************************************************************)
(* Python string helpers (str.find, str.split(sep, 1), str.replace,        *)
(* str.lower) on TLA+ strings.                                             *)
(***************************************************************************)
RECURSIVE FindFrom(_, _, _)
\* s.find(sub) searched from position i (1-based); 0 when absent
FindFrom(s, sub, i) ==
    IF i + Len(sub) - 1 > Len(s) THEN 0
    ELSE IF SubSeq(s, i, i + Len(sub) - 1) = sub THEN i
    ELSE FindFrom(s, sub, i + 1)

\* sub in s
Contains(s, sub) == FindFrom(s, sub, 1) # 0

\* s.split(sep, 1)[-1]
SplitLast(s, sep) ==
    LET i == FindFrom(s, sep, 1)
    IN  IF i = 0 THEN s ELSE SubSeq(s, i + Len(sep), Len(s))

\* s.split(sep, 1)[0]
SplitFirst(s, sep) ==
    LET i == FindFrom(s, sep, 1)
    IN  IF i = 0 THEN s ELSE SubSeq(s, 1, i - 1)

RECURSIVE Replace(_, _, _)
\* s.replace(old, new): every non-overlapping occurrence, left to right
Replace(s, old, new) ==
    LET i == FindFrom(s, old, 1)
    IN  IF i = 0 THEN s
        ELSE SubSeq(s, 1, i - 1) \o new
             \o Replace(SubSeq(s, i + Len(old), Len(s)), old, new)

UpperChars == "ABCDEFGHIJKLMNOPQRSTUVWXYZ"
LowerChars == "abcdefghijklmnopqrstuvwxyz"

RECURSIVE Lower(_)
\* s.lower()
Lower(s) ==
    IF s = "" THEN ""
    ELSE LET c == SubSeq(s, 1, 1)
             i == FindFrom(UpperChars, c, 1)
         IN  (IF i = 0 THEN c ELSE SubSeq(LowerChars, i, i))
             \o Lower(SubSeq(s, 2, Len(s)))

\* the characters of the posted labels in code-point order
CharOrder == " 0123456789abcdefghijklmnopqrstuvwxyz"

Ord(c) == FindFrom(CharOrder, c, 1)

RECURSIVE StrLess(_, _)
\* a < b on Python strings (lexicographic by code point)
StrLess(a, b) ==
    IF b = "" THEN FALSE
    ELSE IF a = "" THEN TRUE
    ELSE LET ca == SubSeq(a, 1, 1)
             cb == SubSeq(b, 1, 1)
         IN  IF ca = cb THEN StrLess(SubSeq(a, 2, Len(a)), SubSeq(b, 2, Len(b)))
             ELSE Ord(ca) < Ord(cb)

(***************************************************************************)
(* The job catalog.                                                        *)
(***************************************************************************)
SAMPLE_JOBS_BR == <<
    [title |-> "Desenvolvedor Python Senior", company |-> "Nubank",
     location |-> "Sao Paulo, BR", url |-> "https://jobs.nubank.com.br/python-senior",
     description |-> "Procuramos desenvolvedor Python com 5+ anos. Experiencia em APIs REST, Flask/Django. Salario: R$15-20k",
     posted |-> "2 dias"],
    [title |-> "Full Stack Developer (Node.js + React)", company |-> "Stone Co",
     location |-> "Sao Paulo, BR", url |-> "https://jobs.stone.co/fullstack",
     description |-> "Node.js, React, PostgreSQL. Remoto. Beneficios: vale refeicao, vale saude, flex.",
     posted |-> "1 semana"],
    [title |-> "Senior Frontend Engineer", company |-> "Creditas",
     location |-> "Sao Paulo, BR", url |-> "https://jobs.creditas.com/frontend",
     description |-> "React, TypeScript, 7+ anos. Trabalhe em produtos de impacto. R$18-25k",
     posted |-> "3 dias"],
    [title |-> "Backend Developer (Java/Spring)", company |-> "BTG Pactual",
     location |-> "Sao Paulo, BR", url |-> "https://jobs.btgpactual.com/java",
     description |-> "Java, Spring Boot, microservices. Fintech. 4+ anos experiencia.",
     posted |-> "5 dias"],
    [title |-> "DevOps Engineer", company |-> "Rappi",
     location |-> "Sao Paulo, BR", url |-> "https://jobs.rappi.com/devops",
     description |-> "Docker, Kubernetes, AWS. 3+ anos. Remoto, full-time.",
     posted |-> "1 semana"] >>

SAMPLE_JOBS_INT == <<
    [title |-> "Senior Software Engineer", company |-> "Google",
     location |-> "Mountain View, USA", url |-> "https://careers.google.com/senior-engineer",
     description |-> "Full-stack engineer. Python/Go. 5+ years. Competitive salary + equity.",
     posted |-> "2 dias"],
    [title |-> "Backend Engineer (Python)", company |-> "Stripe",
     location |-> "San Francisco, USA", url |-> "https://stripe.com/jobs/backend-python",
     description |-> "Python, PostgreSQL, APIs. Remoto. $200k-250k USD + equity",
     posted |-> "3 dias"],
    [title |-> "Full Stack Developer", company |-> "Airbnb",
     location |-> "Remote, Worldwide", url |-> "https://airbnb.com/careers/fullstack",
     description |-> "React, Node.js, Python. 3+ years. Great benefits, remote.",
     posted |-> "4 dias"],
    [title |-> "Frontend Engineer (React)", company |-> "Meta",
     location |-> "London, UK", url |-> "https://meta.com/jobs/frontend",
     description |-> "React, TypeScript. 4+ years. Hybrid. GBP 140k-180k",
     posted |-> "1 dia"],
    [title |-> "DevOps / Infrastructure Engineer", company |-> "AWS",
     location |-> "Remote (LATAM)", url |-> "https://aws.amazon.com/careers/devops",
     description |-> "Kubernetes, Terraform, CI/CD. 3+ years. Remote for LATAM.",
     posted |-> "5 dias"] >>

\* jobs_br = self.SAMPLE_JOBS_BR if region in ["br", "both"] else []
JobsBr(region) == IF region \in {"br", "both"} THEN SAMPLE_JOBS_BR ELSE << >>

\* mutant: the international postings are collected whatever the region
JobsIntAnyRegion(region) == SAMPLE_JOBS_INT

\* jobs_int = self.SAMPLE_JOBS_INT if region in ["int", "both"] else []
JobsInt(region) == IF region \in {"int", "both"} THEN SAMPLE_JOBS_INT ELSE << >>

\* all_jobs = jobs_br + jobs_int
AllJobs(region) == JobsBr(region) \o JobsInt(region)

(***************************************************************************)
(* Dictionaries are functions from keys to values.                         *)
(***************************************************************************)
\* d.get(k) or dflt, for string values
GetOr(d, k, dflt) == IF k \in DOMAIN d /\ d[k] # "" THEN d[k] ELSE dflt

\* a.update(b): the keys of b overwrite those of a
DictUpdate(a, b) ==
    [k \in DOMAIN a \cup DOMAIN b |-> IF k \in DOMAIN b THEN b[k] ELSE a[k]]

\* {**job, "score": 50, "reason": "Selecao automatica (fallback)"}
FallbackJob(job) ==
    DictUpdate(job, [score |-> 50, reason |-> "Selecao automatica (fallback)"])

(***************************************************************************)
(* JobFinder._select_best_jobs                                             *)
(***************************************************************************)
\* seq[:n] (a negative n counts from the end)
Take(seq, n) ==
    IF n >= 0 THEN SubSeq(seq, 1, IF n < Len(seq) THEN n ELSE Len(seq))
    ELSE SubSeq(seq, 1, Len(seq) + n)

\* mutant: the posting is looked up by company alone
FindOriginalByCompany(jobs, job_data) ==
    LET hits == {i \in 1..Len(jobs) : jobs[i].company = job_data.company}
    IN  IF hits = {} THEN 0 ELSE CHOOSE i \in hits : \A k \in hits : i <= k

\* next((j for j in jobs if j['company'] == job_data['company']
\*       and j['title'] == job_data['title']), None): index in jobs, 0 for None
FindOriginal(jobs, job_data) ==
    LET hits == {i \in 1..Len(jobs) :
                    /\ jobs[i].company = job_data.company
                    /\ jobs[i].title = job_data.title}
    IN  IF hits = {} THEN 0 ELSE CHOOSE i \in hits : \A k \in hits : i <= k

\* the lookup of job_data['company'] / job_data['title'] raises KeyError
LookupRaises(jobs, job_data) ==
    /\ Len(jobs) > 0
    /\ \/ "company" \notin DOMAIN job_data
       \/ /\ "title" \notin DOMAIN job_data
          /\ \E i \in 1..Len(jobs) : jobs[i].company = job_data.company

RECURSIVE Enrich(_, _)
\* the loop "for job_data in selected": the reconciled items, in oracle order
Enrich(jobs, selected) ==
    IF selected = << >> THEN << >>
    ELSE LET job_data == Head(selected)
             i == FindOriginal(jobs, job_data)
         IN  (IF i # 0 THEN << DictUpdate(job_data, jobs[i]) >> ELSE << >>)
             \o Enrich(jobs, Tail(selected))

RECURSIVE InsertByPosted(_, _)
\* x goes before the first element whose posted label is greater, so that
\* equal labels keep their order (sorted() is stable)
InsertByPosted(acc, x) ==
    IF acc = << >> THEN << x >>
    ELSE IF StrLess(x.posted, Head(acc).posted) THEN << x >> \o acc
    ELSE << Head(acc) >> \o InsertByPosted(Tail(acc), x)

RECURSIVE SortedByPostedFrom(_, _)
SortedByPostedFrom(jobs, i) ==
    IF i = 0 THEN << >>
    ELSE InsertByPosted(SortedByPostedFrom(jobs, i - 1), jobs[i])

\* sorted(jobs, key=lambda x: x.get('posted', ''))
SortedByPosted(jobs) == SortedByPostedFrom(jobs, Len(jobs))

\* the except branch: sorted(jobs, key=posted)[:5], each with score 50
ExceptFallback(jobs) ==
    LET fb == Take(SortedByPosted(jobs), 5)
    IN  [i \in 1..Len(fb) |-> FallbackJob(fb[i])]

\* mutant: the fallback of the try branch orders the pool like the except branch
EmptyFallbackSorted(jobs) == ExceptFallback(jobs)

\* the fallback of the try branch: jobs[:5], each with score 50
EmptyFallback(jobs) ==
    LET fb == Take(jobs, 5)
    IN  [i \in 1..Len(fb) |-> FallbackJob(fb[i])]

\* a preference value is a tagged JSON value: [t |-> "null"], [t |-> "str", v |-> s],
\* [t |-> "bool", v |-> b] or [t |-> "list", v |-> <<s1, ...>>]; None and {} are << >>
ListFields == {"keywords", "required_keywords", "experience_levels", "work_modes",
               "company_sizes", "contract_types", "sectors"}

\* bool(value) of a preference value
Truthy(val) ==
    CASE val.t = "null" -> FALSE
      [] val.t = "bool" -> val.v
      [] val.t = "str"  -> val.v # ""
      [] val.t = "list" -> val.v # << >>

\* preferences.get(k) is truthy
PrefSet(preferences, k) == k \in DOMAIN preferences /\ Truthy(preferences[k])

\* building pref_text raises: ', '.join(preferences.get(k, [])) with the key
\* present and its value None (or a bool): the default [] is not used
PromptRaises(preferences) ==
    /\ DOMAIN preferences # {}
    /\ \E k \in ListFields \cap DOMAIN preferences : preferences[k].t \in {"null", "bool"}

\* an oracle response: [kind |-> "raise"] (generate_content or response.text
\* raises), [kind |-> "malformed"] (json.loads raises), [kind |-> "list",
\* items |-> <<...>>] (json.loads returns a list of objects), [kind |-> "scalar"]
\* (json.loads returns a number, true or null: the for statement raises
\* TypeError), [kind |-> "strings", n |-> k] (json.loads returns a list of k
\* strings or an object with k keys: job_data['company'] raises TypeError as
\* soon as it is evaluated, that is when the pool has a posting)
OracleFails(jobs, oracle) ==
    \/ oracle.kind \in {"raise", "malformed", "scalar"}
    \/ /\ oracle.kind = "strings"
       /\ oracle.n > 0
       /\ Len(jobs) > 0
    \/ /\ oracle.kind = "list"
       /\ \E n \in 1..Len(oracle.items) : LookupRaises(jobs, oracle.items[n])

\* the body of _select_best_jobs from the try on: the list it returns
RankJobs(jobs, oracle) ==
    IF OracleFails(jobs, oracle) THEN ExceptFallback(jobs)
    ELSE LET result == IF oracle.kind = "list" THEN Enrich(jobs, oracle.items)
                       ELSE << >>
         IN  IF result # << >> THEN Take(result, 5) ELSE EmptyFallback(jobs)

\* the prompt handed to self.model.generate_content: the postings of jobs_text
\* and the preferences of pref_text
Prompt(jobs, preferences) == [jobs |-> jobs, preferences |-> preferences]

\* _select_best_jobs: [raised |-> TRUE] when it raises, else the list; prompts
\* are the calls of generate_content it made
SelectBestJobs(jobs, preferences, oracle) ==
    IF PromptRaises(preferences)
    THEN [raised |-> TRUE, jobs |-> << >>, prompts |-> << >>]
    ELSE [raised |-> FALSE, jobs |-> RankJobs(jobs, oracle),
          prompts |-> << Prompt(jobs, preferences) >>]

(***************************************************************************)
(* JobFinder._infer_email and _ensure_job_contacts                         *)
(***************************************************************************)
InferEmail(company, url) ==
    LET fromUrl == IF url # "" /\ Contains(url, "//")
                   THEN Replace(SplitFirst(SplitLast(url, "//"), "/"), "www.", "")
                   ELSE ""
        domain == IF fromUrl # "" THEN fromUrl
                  ELSE Replace(Lower(company), " ", "") \o ".com"
    IN  "talentos@" \o domain

\* mutant: a rank the job already carries is kept
WithContactKeepsRank(job, idx) ==
    LET company == GetOr(job, "company", "empresa")
        url == GetOr(job, "url", "")
        email == IF "apply_email" \in DOMAIN job /\ job.apply_email # ""
                 THEN job.apply_email ELSE InferEmail(company, url)
    IN  DictUpdate(job, [apply_email |-> email,
                         rank |-> IF "rank" \in DOMAIN job THEN job.rank ELSE idx])

\* one iteration of the loop of _ensure_job_contacts
WithContact(job, idx) ==
    LET company == GetOr(job, "company", "empresa")
        url == GetOr(job, "url", "")
        email == IF "apply_email" \in DOMAIN job /\ job.apply_email # ""
                 THEN job.apply_email ELSE InferEmail(company, url)
    IN  DictUpdate(job, [apply_email |-> email, rank |-> idx])

EnsureJobContacts(jobs) == [idx \in 1..Len(jobs) |-> WithContact(jobs[idx], idx)]

(***************************************************************************)
(* The request: int(max_results) and the ResultCache file.                 *)
(***************************************************************************)
Digits == "0123456789"

RECURSIVE AllDigits(_)
AllDigits(s) ==
    \/ s = ""
    \/ /\ FindFrom(Digits, SubSeq(s, 1, 1), 1) # 0
       /\ AllDigits(SubSeq(s, 2, Len(s)))

\* int(s) does not raise ValueError: an optional sign and decimal digits
IsInt(s) ==
    LET body == IF s # "" /\ SubSeq(s, 1, 1) \in {"-", "+"}
                THEN SubSeq(s, 2, Len(s)) ELSE s
    IN  body # "" /\ AllDigits(body)

RECURSIVE DigitsValue(_, _)
DigitsValue(s, acc) ==
    IF s = "" THEN acc
    ELSE DigitsValue(SubSeq(s, 2, Len(s)),
                     acc * 10 + (FindFrom(Digits, SubSeq(s, 1, 1), 1) - 1))

\* int(s), for IsInt(s)
IntOf(s) ==
    IF SubSeq(s, 1, 1) = "-" THEN 0 - DigitsValue(SubSeq(s, 2, Len(s)), 0)
    ELSE IF SubSeq(s, 1, 1) = "+" THEN DigitsValue(SubSeq(s, 2, Len(s)), 0)
    ELSE DigitsValue(s, 0)

\* {"updated_at": None, "results": []}; updated_at is << >> for None, <<t>> for a time
DefaultCache == [updated_at |-> << >>, results |-> << >>]

\* the file data/jobs_cache.json: content holds the payload whose serialization
\* starts the file (none when the file is empty), tail counts what is left after
\* it of a longer serialization written before
NoFile == [exists |-> FALSE, content |-> << >>, tail |-> 0]

\* length of json.dump(payload), in units of one serialized job
PayloadSize(payload) == 1 + Len(payload.results)

FileSize(file) ==
    (IF file.content = << >> THEN 0 ELSE PayloadSize(file.content[1])) + file.tail

\* open(JOBS_CACHE_FILE, 'w'): creates or truncates the file
Truncated == [exists |-> TRUE, content |-> << >>, tail |-> 0]

\* json.dump + close on a handle opened at offset 0: the bytes written replace
\* the start of whatever the file holds by then
Dumped(file, payload) ==
    [exists |-> TRUE, content |-> << payload >>,
     tail |-> IF FileSize(file) > PayloadSize(payload)
              THEN FileSize(file) - PayloadSize(payload) ELSE 0]

\* load_jobs_cache behind get_jobs_results_api: json.load raises on an empty
\* file or on trailing data, and the handler answers with an error
LoadJobsCache(file) ==
    IF ~file.exists THEN [status |-> "ok", value |-> DefaultCache]
    ELSE IF file.content # << >> /\ file.tail = 0
         THEN [status |-> "ok", value |-> file.content[1]]
         ELSE [status |-> "error"]

(***************************************************************************)
(* State.                                                                  *)
(***************************************************************************)
VARIABLES
    job_finder,      \* app.py: job_finder is not None (JobFinder() succeeded)
    profile_exists,  \* data/user_profile.json exists
    last_results,    \* JobFinder.last_results of the one job_finder object
    cache_file,      \* data/jobs_cache.json
    site_state,      \* data/site_state.json: the keys search_jobs_api updates
    clock,           \* datetime.now()
    pc,              \* per request: where its handler or generator stands
    req,             \* per request: region, max_results, preferences
    loc,             \* per request: the locals of generate() and search_jobs
    stream,          \* per request: the events sent to the consumer so far
    response,        \* per request: kind of response the handler returned
    last_read,       \* answer of the latest GET /api/jobs/results
    last_writer,     \* history: the request that last opened or wrote the cache file
    last_written,    \* history: the payload of the latest save_jobs_cache that returned
    call,            \* arguments of a direct call of the matching engine
    ret              \* what that call returned

vars == << job_finder, profile_exists, last_results, cache_file, site_state, clock,
           pc, req, loc, stream, response, last_read, last_writer, last_written,
           call, ret >>

pipeline_vars == << job_finder, profile_exists, last_results, cache_file, site_state,
                    clock, pc, req, loc, stream, response, last_read, last_writer,
                    last_written >>

\* the requests in flight: two handler threads of the threaded server
Procs == {"r1", "r2"}

NoPreferences == << >>

NoRequest == [region |-> "", max_results |-> "", preferences |-> NoPreferences]

NoLocals == [jobs_br |-> << >>, jobs_int |-> << >>, all_jobs |-> << >>,
             selected_jobs |-> << >>, to_show |-> << >>,
             shown |-> << >>, payload |-> DefaultCache, oracle |-> [kind |-> "none"],
             prompts |-> << >>]

NoCall == [jobs |-> << >>, preferences |-> NoPreferences, oracle |-> [kind |-> "none"]]

NoReturn == [state |-> "none", selected |-> << >>, results |-> << >>, prompts |-> << >>]

InitPipeline ==
    /\ job_finder \in BOOLEAN
    /\ profile_exists \in BOOLEAN
    /\ last_results = << >>
    /\ cache_file = NoFile
    /\ site_state = [job_search_preferences |-> NoPreferences, last_job_search_at |-> << >>]
    /\ clock = 1
    /\ pc = [p \in Procs |-> "idle"]
    /\ req = [p \in Procs |-> NoRequest]
    /\ loc = [p \in Procs |-> NoLocals]
    /\ stream = [p \in Procs |-> << >>]
    /\ response = [p \in Procs |-> "none"]
    /\ last_read = [status |-> "none"]
    /\ last_writer = "none"
    /\ last_written = DefaultCache

Init == InitPipeline /\ call = NoCall /\ ret = NoReturn

(***************************************************************************)
(* search_jobs_api: the handler up to the Response it returns.             *)
(***************************************************************************)
Emit(p, events) == stream' = [stream EXCEPT ![p] = @ \o events]

Goto(p, label) == pc' = [pc EXCEPT ![p] = label]

Request(p, wants_stream, region, max_results, preferences) ==
    /\ pc[p] = "idle"
    /\ IF ~job_finder \/ ~profile_exists
       THEN /\ response' = [response EXCEPT ![p] =
                    IF wants_stream THEN "stream"
                    ELSE IF ~job_finder THEN "json503" ELSE "json404"]
            /\ Goto(p, IF wants_stream THEN "error_stream" ELSE "closed")
            /\ UNCHANGED << req, site_state, clock >>
       ELSE /\ req' = [req EXCEPT ![p] = [region |-> region, max_results |-> max_results,
                                          preferences |-> preferences]]
            /\ IF DOMAIN preferences # {}
               THEN /\ site_state' = [job_search_preferences |-> preferences,
                                      last_job_search_at |-> << clock >>]
                    /\ clock' = clock + 1
               ELSE UNCHANGED << site_state, clock >>
            /\ response' = [response EXCEPT ![p] = "stream"]
            /\ Goto(p, "generate")
    /\ UNCHANGED << job_finder, profile_exists, last_results, cache_file, loc, stream,
                    last_read, last_writer, last_written, call, ret >>

\* error_stream(): the error message
ErrorEvent(p) ==
    /\ pc[p] = "error_stream"
    /\ Emit(p, << "ERRO" >>)
    /\ Goto(p, "error_end")
    /\ UNCHANGED << job_finder, profile_exists, last_results, cache_file, site_state,
                    clock, req, loc, response, last_read, last_writer, last_written,
                    call, ret >>

\* error_stream(): "event: end"
ErrorEnd(p) ==
    /\ pc[p] = "error_end"
    /\ Emit(p, << "END" >>)
    /\ Goto(p, "closed")
    /\ UNCHANGED << job_finder, profile_exists, last_results, cache_file, site_state,
                    clock, req, loc, response, last_read, last_writer, last_written,
                    call, ret >>

(***************************************************************************)
(* generate() around JobFinder.search_jobs: one action per resumption of   *)
(* the generator; an event is named by the tag that starts its text.       *)
(***************************************************************************)
\* what a step of the generator leaves alone besides pc, loc and stream
LocalFrame ==
    UNCHANGED << job_finder, profile_exists, last_results, cache_file, site_state,
                 clock, req, response, last_read, last_writer, last_written, call, ret >>

\* max_results = int(max_results); yield "[INICIANDO] ..."
StartSearch(p) ==
    /\ pc[p] = "generate"
    /\ IF IsInt(req[p].max_results)
       THEN Emit(p, << "INICIANDO" >>) /\ Goto(p, "profile")
       ELSE UNCHANGED stream /\ Goto(p, "aborted")
    /\ UNCHANGED loc
    /\ LocalFrame

\* mutant: the opening line is yielded after the profile lines
NarrateProfileThenOpening(p) ==
    /\ pc[p] = "profile"
    /\ Emit(p, << "PERFIL", "SKILLS", "INICIANDO" >>)
    /\ Goto(p, "preferences")
    /\ UNCHANGED loc
    /\ LocalFrame

\* yield "[PERFIL] ..."; yield "[SKILLS] ..."
NarrateProfile(p) ==
    /\ pc[p] = "profile"
    /\ Emit(p, << "PERFIL", "SKILLS" >>)
    /\ Goto(p, "preferences")
    /\ UNCHANGED loc
    /\ LocalFrame

\* the fields of the block "if preferences:", in the order of their tests
PrefOrder == << "keywords", "required_keywords", "experience_levels", "work_modes",
                "company_sizes", "contract_types", "sectors", "education_level",
                "accept_travel", "location_city", "location_radius_km" >>

\* the test guarding the line of field k
PrefShown(preferences, k) ==
    IF k = "accept_travel"
    THEN k \in DOMAIN preferences /\ preferences[k].t # "null"
    ELSE PrefSet(preferences, k)

\* ', '.join(value) raises TypeError on a value that is not iterable
JoinRaises(preferences, k) == k \in ListFields /\ preferences[k].t = "bool"

RECURSIVE PrefLines(_, _)
\* the lines of the fields from position n on: the events, and whether a line raised
PrefLines(preferences, n) ==
    IF n > Len(PrefOrder) THEN [events |-> << "BLANK" >>, raised |-> FALSE]
    ELSE LET k == PrefOrder[n]
         IN  IF ~PrefShown(preferences, k) THEN PrefLines(preferences, n + 1)
             ELSE IF JoinRaises(preferences, k) THEN [events |-> << >>, raised |-> TRUE]
             ELSE LET rest == PrefLines(preferences, n + 1)
                  IN  [events |-> << "PREF" >> \o rest.events, raised |-> rest.raised]

NarratePreferences(p) ==
    /\ pc[p] = "preferences"
    /\ IF DOMAIN req[p].preferences = {}
       THEN UNCHANGED stream /\ Goto(p, "collect_br")
       ELSE LET lines == PrefLines(req[p].preferences, 1)
            IN  /\ Emit(p, << "PREFERENCIAS" >> \o lines.events)
                /\ Goto(p, IF lines.raised THEN "aborted" ELSE "collect_br")
    /\ UNCHANGED loc
    /\ LocalFrame

\* yield "[BUSCANDO] ..."; jobs_br = ...; yield "[OK] ..."
CollectBr(p) ==
    /\ pc[p] = "collect_br"
    /\ loc' = [loc EXCEPT ![p].jobs_br = JobsBr(req[p].region)]
    /\ Emit(p, << "BUSCANDO", "OK" >>)
    /\ Goto(p, "collect_int")
    /\ LocalFrame

\* yield "[BUSCANDO] ..."; jobs_int = ...; yield "[OK] ..."
CollectInt(p) ==
    /\ pc[p] = "collect_int"
    /\ loc' = [loc EXCEPT ![p].jobs_int = JobsInt(req[p].region)]
    /\ Emit(p, << "BUSCANDO", "OK" >>)
    /\ Goto(p, "processing")
    /\ LocalFrame

\* mutant: a base city among the preferences keeps the national postings only
ProcessingByCity(p) ==
    /\ pc[p] = "processing"
    /\ loc' = [loc EXCEPT ![p].all_jobs =
                   IF PrefSet(req[p].preferences, "location_city") THEN loc[p].jobs_br
                   ELSE loc[p].jobs_br \o loc[p].jobs_int]
    /\ Emit(p, << "PROCESSANDO", "PENSAMENTO" >>)
    /\ Goto(p, "scoring")
    /\ LocalFrame

\* all_jobs = jobs_br + jobs_int; yield "[PROCESSANDO] ..."; yield "[PENSAMENTO] ..."
Processing(p) ==
    /\ pc[p] = "processing"
    /\ loc' = [loc EXCEPT ![p].all_jobs = loc[p].jobs_br \o loc[p].jobs_int]
    /\ Emit(p, << "PROCESSANDO", "PENSAMENTO" >>)
    /\ Goto(p, "scoring")
    /\ LocalFrame

\* selected_jobs = self._select_best_jobs(...); self.last_results =
\* self._ensure_job_contacts(selected_jobs), which also changes the dicts of
\* selected_jobs in place; yield "[RESULTADO] ..."; yield "====..."
Score(p, oracle) ==
    /\ pc[p] = "scoring"
    /\ LET sel == SelectBestJobs(loc[p].all_jobs, req[p].preferences, oracle)
       IN  IF sel.raised
           THEN /\ loc' = [loc EXCEPT ![p].oracle = oracle, ![p].prompts = sel.prompts]
                /\ UNCHANGED << last_results, stream >>
                /\ Goto(p, "aborted")
           ELSE /\ last_results' = EnsureJobContacts(sel.jobs)
                /\ loc' = [loc EXCEPT ![p].oracle = oracle, ![p].prompts = sel.prompts,
                                      ![p].selected_jobs = EnsureJobContacts(sel.jobs)]
                /\ Emit(p, << "RESULTADO", "RULE" >>)
                /\ Goto(p, "items")
    /\ UNCHANGED << job_finder, profile_exists, cache_file, site_state, clock, req,
                    response, last_read, last_writer, last_written, call, ret >>

\* the for statement evaluates self.last_results[:max_results]
BeginItems(p) ==
    /\ pc[p] = "items"
    /\ loc' = [loc EXCEPT ![p].to_show = Take(last_results, IntOf(req[p].max_results))]
    /\ Goto(p, "item")
    /\ UNCHANGED stream
    /\ LocalFrame

\* the eight lines of one job; job['score'] and job['reason'] raise KeyError
\* when the oracle left them out
NarrateItem(p) ==
    /\ pc[p] = "item"
    /\ loc[p].to_show # << >>
    /\ LET job == Head(loc[p].to_show)
       IN  IF "score" \notin DOMAIN job
           THEN /\ Emit(p, << "ITEM", "Empresa", "Localizacao" >>)
                /\ Goto(p, "aborted")
                /\ UNCHANGED loc
           ELSE IF "reason" \notin DOMAIN job
           THEN /\ Emit(p, << "ITEM", "Empresa", "Localizacao", "Score" >>)
                /\ Goto(p, "aborted")
                /\ UNCHANGED loc
           ELSE /\ Emit(p, << "ITEM", "Empresa", "Localizacao", "Score", "Motivo",
                              "URL", "Email", "Publicada" >>)
                /\ loc' = [loc EXCEPT ![p].to_show = Tail(loc[p].to_show),
                                      ![p].shown = Append(loc[p].shown, job)]
                /\ UNCHANGED pc
    /\ LocalFrame

\* mutant: the generator ends without its "[CONCLUIDO]" line
ConcludeWithoutMarker(p) ==
    /\ pc[p] = "item"
    /\ loc[p].to_show = << >>
    /\ Emit(p, << "RULE" >>)
    /\ Goto(p, "save")
    /\ UNCHANGED loc
    /\ LocalFrame

\* the loop is over: yield "====..."; yield "[CONCLUIDO] ..."
Conclude(p) ==
    /\ pc[p] = "item"
    /\ loc[p].to_show = << >>
    /\ Emit(p, << "RULE", "CONCLUIDO" >>)
    /\ Goto(p, "save")
    /\ UNCHANGED loc
    /\ LocalFrame

\* results = job_finder.get_last_results(); save_jobs_cache(results) up to
\* open(JOBS_CACHE_FILE, 'w')
SaveOpen(p) ==
    /\ pc[p] = "save"
    /\ loc' = [loc EXCEPT ![p].payload = [updated_at |-> << clock >>,
                                          results |-> last_results]]
    /\ clock' = clock + 1
    /\ cache_file' = Truncated
    /\ last_writer' = p
    /\ Goto(p, "dump")
    /\ UNCHANGED << job_finder, profile_exists, last_results, site_state, req, stream,
                    response, last_read, last_written, call, ret >>

\* json.dump(payload, f) and the close of the with block
SaveDump(p) ==
    /\ pc[p] = "dump"
    /\ cache_file' = Dumped(cache_file, loc[p].payload)
    /\ last_writer' = p
    /\ last_written' = loc[p].payload
    /\ Goto(p, "end")
    /\ UNCHANGED << job_finder, profile_exists, last_results, site_state, clock, req,
                    loc, stream, response, last_read, call, ret >>

\* yield "event: end"
EndStream(p) ==
    /\ pc[p] = "end"
    /\ Emit(p, << "END" >>)
    /\ Goto(p, "closed")
    /\ UNCHANGED loc
    /\ LocalFrame

\* generate() is suspended at a yield whose event the server is writing
AtYield(p) ==
    \/ pc[p] \in {"error_end", "profile", "preferences", "collect_int", "processing",
                  "scoring", "items", "save"}
    \/ pc[p] = "collect_br" /\ DOMAIN req[p].preferences # {}
    \/ pc[p] = "item" /\ loc[p].shown # << >>

\* mutant: generate() saves the results in a finally clause when it is closed
WriteFailsThenSaves(p) ==
    /\ AtYield(p)
    /\ Goto(p, "cancelled")
    /\ cache_file' = Dumped(Truncated, [updated_at |-> << clock >>, results |-> last_results])
    /\ last_writer' = p
    /\ UNCHANGED << job_finder, profile_exists, last_results, site_state, clock, req,
                    loc, stream, response, last_read, last_written, call, ret >>

\* the consumer is gone: the write of the event just yielded fails and the
\* server closes the response iterable; GeneratorExit is raised at the yield
\* where generate() (or error_stream()) is suspended, nothing catches it and no
\* finally clause runs
WriteFails(p) ==
    /\ AtYield(p)
    /\ Goto(p, "cancelled")
    /\ UNCHANGED << job_finder, profile_exists, last_results, cache_file, site_state,
                    clock, req, loc, stream, response, last_read, last_writer,
                    last_written, call, ret >>

\* get_jobs_results_api
ReadCache ==
    /\ last_read' = LoadJobsCache(cache_file)
    /\ UNCHANGED << job_finder, profile_exists, last_results, cache_file, site_state,
                    clock, pc, req, loc, stream, response, last_writer, last_written,
                    call, ret >>

(***************************************************************************)
(* The inputs explored.                                                    *)
(***************************************************************************)
Catalog == SAMPLE_JOBS_BR \o SAMPLE_JOBS_INT

\* an oracle item naming catalog job j with score s
It(j, s) == [title |-> Catalog[j].title, company |-> Catalog[j].company,
             score |-> s, reason |-> "bom match"]

\* an item whose company is in no pool
Unknown == [title |-> Catalog[1].title, company |-> "Acme Co",
            score |-> 90, reason |-> "bom match"]

\* items that leave a key out
NoScore(j) == [title |-> Catalog[j].title, company |-> Catalog[j].company,
               reason |-> "bom match"]

NoCompany == [title |-> Catalog[1].title, score |-> 90, reason |-> "bom match"]

\* an item naming a pool company under another title
WrongTitle == [title |-> "Engenheiro de Dados", company |-> Catalog[1].company,
               score |-> 90, reason |-> "bom match"]

\* an item with a key of its own
WithEmail(j) == DictUpdate(It(j, 90), [apply_email |-> "rh@exemplo.com"])

\* items that carry keys of a posting or of a ranked job with values of their own
WithUrl(j) == DictUpdate(It(j, 90), [url |-> "https://www.acme.com/x", location |-> "Marte"])

WithRank(j) == DictUpdate(It(j, 90), [rank |-> 7])

OracleRaise == [kind |-> "raise"]

OracleMalformed == [kind |-> "malformed"]

OracleList(items) == [kind |-> "list", items |-> items]

OracleScalar == [kind |-> "scalar"]

OracleStrings(n) == [kind |-> "strings", n |-> n]

\* the first k catalog jobs with scores 100, 95, 90, ...
TopList(k) == OracleList([j \in 1..k |-> It(j, 100 - 5 * (j - 1))])

SeqsUpTo(S, n) == UNION {[1..k -> S] : k \in 0..n}

MaxShortList == 2

MaxLongList == 7

ItemSpace ==
    {It(j, s) : j \in {1, 2, 6}, s \in {0 - 5, 70, 90, 150}}
        \cup {Unknown, WrongTitle, NoScore(2), NoCompany, WithEmail(1), WithUrl(2), WithRank(6)}

OracleSpace ==
    {OracleRaise, OracleMalformed, OracleScalar, OracleStrings(0), OracleStrings(2)}
        \cup {OracleList(items) : items \in SeqsUpTo(ItemSpace, MaxShortList)}
        \cup {TopList(k) : k \in 0..MaxLongList}

GoodPrefs == [keywords |-> [t |-> "list", v |-> << "python", "flask" >>],
              accept_travel |-> [t |-> "bool", v |-> FALSE],
              location_city |-> [t |-> "str", v |-> "Registro"]]

NullPrefs == [keywords |-> [t |-> "null"],
              work_modes |-> [t |-> "list", v |-> << "remoto" >>]]

PrefSpace == {NoPreferences, GoodPrefs, NullPrefs}

RegionSpace == {"br", "int", "both", "mars"}

MaxResultsSpace == {"3", "10", "abc"}

\* the inputs of one request at a time
SmallOracleSpace ==
    {OracleRaise, OracleList(<< It(1, 90) >>), OracleList(<< NoScore(2) >>), TopList(6)}

\* the inputs of two overlapping requests
RaceOracleSpace == {OracleRaise, OracleList(<< It(1, 90) >>), OracleList(<< It(6, 80) >>)}

(***************************************************************************)
(* Specifications.                                                         *)
(***************************************************************************)
\* no other request is between its arrival and the end of its stream, and
\* the requests are named in their order of arrival
Alone(p) ==
    /\ \A q \in Procs \ {p} : pc[q] \in {"idle", "closed", "aborted"}
    /\ p = "r2" => pc["r1"] # "idle"

\* a search request arriving while no other is being served
Arrive(p) ==
    /\ Alone(p)
    /\ \E w \in BOOLEAN, r \in {"br", "int", "both"}, m \in MaxResultsSpace,
          pr \in PrefSpace : Request(p, w, r, m, pr)

\* the oracle answers the call of _select_best_jobs
Answer(p) == \E o \in SmallOracleSpace : Score(p, o)

Generator(p) ==
    \/ ErrorEvent(p)
    \/ ErrorEnd(p)
    \/ StartSearch(p)
    \/ NarrateProfile(p)
    \/ NarratePreferences(p)
    \/ CollectBr(p)
    \/ CollectInt(p)
    \/ Processing(p)
    \/ BeginItems(p)
    \/ NarrateItem(p)
    \/ Conclude(p)
    \/ SaveOpen(p)
    \/ SaveDump(p)
    \/ EndStream(p)

Next ==
    \/ \E p \in Procs : Arrive(p) \/ Answer(p) \/ Generator(p)
    \/ ReadCache

Spec == Init /\ [][Next]_vars

\* a search request arriving while another may be in progress
ArriveRace(p) ==
    \E w \in BOOLEAN, r \in {"br", "int"} : Request(p, w, r, "10", NoPreferences)

AnswerRace(p) == \E o \in RaceOracleSpace : Score(p, o)

NextRace ==
    \/ \E p \in Procs : ArriveRace(p) \/ AnswerRace(p) \/ Generator(p)
    \/ ReadCache

SpecRace == Init /\ [][NextRace]_vars

(***************************************************************************)
(* Which dict a returned job is. The postings of the pool are dicts of the *)
(* class attributes SAMPLE_JOBS_BR and SAMPLE_JOBS_INT, shared by every    *)
(* search; a returned job is described by the index in jobs of the pool    *)
(* dict it is, or by 0 when it is a dict that is in no pool.               *)
(***************************************************************************)
\* mutant: the fallback writes score and reason into the pool's dict and
\* returns that dict
FallbackObjectShared(jobs, job) == CHOOSE i \in 1..Len(jobs) : jobs[i] = job

\* {**job, "score": 50, "reason": ...} builds a new dict
FallbackObject(jobs, job) == 0

\* job_data.update(original); result.append(job_data): the dict appended is
\* the one json.loads built, original is only read
ReconciledObject(jobs, job_data) == 0

\* the dicts of the list _select_best_jobs returns
SelectedObjects(jobs, oracle) ==
    IF OracleFails(jobs, oracle)
    THEN LET fb == Take(SortedByPosted(jobs), 5)
         IN  [m \in 1..Len(fb) |-> FallbackObject(jobs, fb[m])]
    ELSE LET result == IF oracle.kind = "list" THEN Enrich(jobs, oracle.items)
                       ELSE << >>
             top == Take(result, 5)
             fb == Take(jobs, 5)
         IN  IF result # << >>
             THEN [m \in 1..Len(top) |-> ReconciledObject(jobs, top[m])]
             ELSE [m \in 1..Len(fb) |-> FallbackObject(jobs, fb[m])]

\* the pool after the in-place writes made to the dicts of list (the dict
\* literal keys of the fallback, job["apply_email"] = email, job["rank"] = idx):
\* a pool dict that is also a dict of list holds what list holds
PoolAfter(pool, list, objects) ==
    [i \in 1..Len(pool) |->
        LET same == {m \in 1..Len(list) : objects[m] = i}
        IN  IF same = {} THEN pool[i]
            ELSE list[CHOOSE m \in same : \A k \in same : k <= m]]

(***************************************************************************)
(* The matching engine called on its own, as lines 190-191 of search_jobs  *)
(* call it.                                                                *)
(***************************************************************************)
InitMatch ==
    /\ InitPipeline
    /\ job_finder /\ profile_exists
    /\ call \in {[jobs |-> AllJobs(r), preferences |-> pr, oracle |-> o] :
                    r \in RegionSpace, pr \in PrefSpace, o \in OracleSpace}
    /\ ret = NoReturn

\* selected_jobs = self._select_best_jobs(profile, all_jobs, preferences)
MatchSelect ==
    /\ ret.state = "none"
    /\ LET sel == SelectBestJobs(call.jobs, call.preferences, call.oracle)
           objects == SelectedObjects(call.jobs, call.oracle)
       IN  ret' = IF sel.raised
                  THEN [state |-> "raised", selected |-> << >>, results |-> << >>,
                        prompts |-> sel.prompts, objects |-> << >>, pool |-> call.jobs]
                  ELSE [state |-> "selected", selected |-> sel.jobs, results |-> << >>,
                        prompts |-> sel.prompts, objects |-> objects,
                        pool |-> PoolAfter(call.jobs, sel.jobs, objects)]
    /\ UNCHANGED << pipeline_vars, call >>

\* self.last_results = self._ensure_job_contacts(selected_jobs)
MatchContacts ==
    /\ ret.state = "selected"
    /\ ret' = [state |-> "done", selected |-> EnsureJobContacts(ret.selected),
               results |-> EnsureJobContacts(ret.selected), prompts |-> ret.prompts,
               objects |-> ret.objects,
               pool |-> PoolAfter(ret.pool, EnsureJobContacts(ret.selected), ret.objects)]
    /\ UNCHANGED << pipeline_vars, call >>

\* the same search once more: all_jobs = jobs_br + jobs_int lists the same
\* dicts of SAMPLE_JOBS_BR and SAMPLE_JOBS_INT, as the earlier search left them
MatchAgain ==
    /\ ret.state = "done"
    /\ call' = [call EXCEPT !.jobs = ret.pool]
    /\ ret' = NoReturn
    /\ UNCHANGED pipeline_vars

NextMatch == MatchSelect \/ MatchContacts \/ MatchAgain

SpecMatch == InitMatch /\ [][NextMatch]_vars

(***************************************************************************)
(* Claims about the matching engine (SpecMatch).                           *)
(***************************************************************************)
PostingKeys == {"title", "company", "location", "url", "description", "posted"}

\* the JobPosting part of a ranked job
PostingOf(job) == [k \in PostingKeys |-> job[k]]

Min(a, b) == IF a < b THEN a ELSE b

FallbackReason == "Selecao automatica (fallback)"

\* the list is the first min(len(P), 5) postings of P in pool order, each with
\* score 50 and the fallback reason
IsPoolOrderFallback(list, P) ==
    /\ Len(list) = Min(Len(P), 5)
    /\ \A i \in 1..Len(list) :
          /\ list[i].score = 50
          /\ list[i].reason = FallbackReason
          /\ PostingOf(list[i]) = P[i]

\* the engine has returned
Returned == ret.state \in {"selected", "done"}

\* C1: when the oracle call fails (it raises, or its output cannot be read as
\* the expected list), the engine returns the first min(len(P), 5) postings of
\* the pool in pool order, each with score 50 and the fallback reason.
C1_FailureFallbackInPoolOrder ==
    (Returned /\ OracleFails(call.jobs, call.oracle))
        => IsPoolOrderFallback(ret.selected, call.jobs)

\* the oracle returned a well-formed list none of whose items names a pool
\* posting by (company, title)
NothingReconciled ==
    /\ call.oracle.kind = "list"
    /\ \A n \in 1..Len(call.oracle.items) :
          /\ {"title", "company"} \subseteq DOMAIN call.oracle.items[n]
          /\ FindOriginal(call.jobs, call.oracle.items[n]) = 0

\* C2: when no item of a well-formed oracle list matches a pool posting by
\* (company, title), every item is dropped and the result is the first
\* min(len(P), 5) pool postings in pool order with score 50 and the fallback reason.
C2_NoMatchFallback ==
    (Returned /\ NothingReconciled) => IsPoolOrderFallback(ret.selected, call.jobs)

\* a pool of 10, an oracle list of unknown items, and 5 fallback items returned
C2_Witness ==
    /\ ret.state = "done"
    /\ NothingReconciled
    /\ Len(call.oracle.items) = 2
    /\ Len(call.jobs) = 10
    /\ Len(ret.results) = 5

\* C4: every job of a search result has an integer score in 0..100, whatever
\* scores the oracle returns.
C4_ScoreInRange ==
    ret.state = "done" =>
        \A i \in 1..Len(ret.results) :
            /\ "score" \in DOMAIN ret.results[i]
            /\ ret.results[i].score \in 0..100

\* position in the pool of the posting a ranked job carries
PoolIndex(job) == FindOriginal(call.jobs, job)

\* C5: the result list is sorted by score descending, and jobs of equal score
\* are in the order of their postings in the pool.
C5_SortedByScoreStable ==
    ret.state = "done" =>
        \A i, j \in 1..Len(ret.results) :
            (i < j /\ "score" \in DOMAIN ret.results[i] /\ "score" \in DOMAIN ret.results[j])
                => /\ ret.results[i].score >= ret.results[j].score
                   /\ ret.results[i].score = ret.results[j].score
                         => PoolIndex(ret.results[i]) <= PoolIndex(ret.results[j])

\* C13: the matching engine is total: for every pool, every PreferenceSet
\* (fields present, absent or null) and every oracle behaviour (a list, an
\* exception, malformed text, JSON that is no list of objects, items without
\* title or company) the call returns a list and never raises.
C13_EngineNeverRaises ==
    ret.state # "none" => ret.state \in {"selected", "done"}

(***************************************************************************)
(* Claims about the search stream and the ResultCache.                     *)
(***************************************************************************)
\* request p is past lines 190-191 of search_jobs and before the end of its stream
AfterScoring(p) == pc[p] \in {"items", "item", "save", "dump", "end"}

\* C3: the ranked list a search produces (kept as last_results and written to
\* the ResultCache) has at most 10 and at most max_results items.
C3_ResultWithinCap ==
    \A p \in Procs :
        /\ AfterScoring(p) =>
              /\ Len(last_results) <= 10
              /\ Len(last_results) <= IntOf(req[p].max_results)
        /\ pc[p] \in {"dump", "end"} =>
              /\ Len(loc[p].payload.results) <= 10
              /\ Len(loc[p].payload.results) <= IntOf(req[p].max_results)

\* C6: a ResultCache read returns {updated_at: null, results: []} when no write
\* has occurred and otherwise exactly the most recently written value.
C6_ReadReturnsLastWritten ==
    [][ReadCache => last_read' = [status |-> "ok", value |-> last_written]]_vars

\* the search of request p ran to its end-of-stream signal
Completed(p) ==
    /\ pc[p] = "closed"
    /\ Len(stream[p]) >= 2
    /\ stream[p][Len(stream[p])] = "END"
    /\ stream[p][Len(stream[p]) - 1] = "CONCLUIDO"

\* C7: after a search has completed, and with no other search writing since,
\* a ResultCache read returns exactly the list this search produced, with the
\* updated_at of its write.
C7_CacheHoldsCompletedSearch ==
    \A p \in Procs :
        (Completed(p) /\ last_writer = p) =>
            LoadJobsCache(cache_file) =
                [status |-> "ok",
                 value |-> [updated_at |-> loc[p].payload.updated_at,
                            results |-> loc[p].selected_jobs]]

\* the stage of the pipeline an event belongs to, INIT = 1 ... DONE = 6, and 7
\* for the end-of-stream signal
StageOf(event) ==
    CASE event = "INICIANDO" -> 1
      [] event \in {"PERFIL", "SKILLS", "PREFERENCIAS", "PREF", "BLANK"} -> 2
      [] event \in {"BUSCANDO", "OK"} -> 3
      [] event \in {"PROCESSANDO", "PENSAMENTO"} -> 4
      [] event \in {"RESULTADO", "RULE", "ITEM", "Empresa", "Localizacao", "Score",
                    "Motivo", "URL", "Email", "Publicada"} -> 5
      [] event \in {"CONCLUIDO", "ERRO"} -> 6
      [] event = "END" -> 7

\* C8: within one pipeline the events are emitted in the stage order INIT,
\* PROFILE_CHECK, REGION_COLLECT, SCORING, ENRICHING, DONE: no event of a later
\* stage precedes an event of an earlier one, so no stage is entered twice
\* (the stages never decrease from one event to the next).
C8_EventsInStageOrder ==
    \A p \in Procs :
        \A i \in 1..(Len(stream[p]) - 1) :
            StageOf(stream[p][i]) <= StageOf(stream[p][i + 1])

\* a pipeline that went through all six stages
C8_Witness ==
    \E p \in Procs :
        {StageOf(stream[p][i]) : i \in 1..Len(stream[p])} = 1..7

\* the stream of request p is over
StreamOver(p) == response[p] = "stream" /\ pc[p] \in {"closed", "aborted"}

\* the stream of request p delivered a terminal event and then the end signal
Delivered(p) ==
    /\ Len(stream[p]) >= 2
    /\ stream[p][Len(stream[p])] = "END"
    /\ stream[p][Len(stream[p]) - 1] \in {"CONCLUIDO", "ERRO"}

\* the request carries an integer max_results and preferences the prompt accepts
WellFormed(p) == IsInt(req[p].max_results) /\ ~PromptRaises(req[p].preferences)

\* C9: every search stream whose oracle call returned or failed delivers a
\* terminal event and the end-of-stream signal: a stream is never over without them.
C9_StreamDeliversTerminal ==
    \A p \in Procs :
        (StreamOver(p) /\ (req[p] # NoRequest => WellFormed(p))) => Delivered(p)

Emitted(p, e) == \E i \in 1..Len(stream[p]) : stream[p][i] = e

\* the pool a region stands for
RegionPool(region) ==
    CASE region = "br"   -> SAMPLE_JOBS_BR
      [] region = "int"  -> SAMPLE_JOBS_INT
      [] region = "both" -> SAMPLE_JOBS_BR \o SAMPLE_JOBS_INT

IsBrPosting(job) ==
    \E i \in 1..Len(SAMPLE_JOBS_BR) : PostingOf(job) = SAMPLE_JOBS_BR[i]

\* C11: the region decides the pool before ranking: 'br' gives exactly the BR
\* postings, 'int' exactly the INT postings, 'both' the BR postings followed by
\* the INT postings; that pool is what the oracle is asked about, and with
\* region 'br' the output has at most 5 items, each of them a BR posting.
C11_RegionDecidesPool ==
    \A p \in Procs :
        /\ Emitted(p, "PROCESSANDO") => loc[p].all_jobs = RegionPool(req[p].region)
        /\ \A n \in 1..Len(loc[p].prompts) :
              loc[p].prompts[n].jobs = RegionPool(req[p].region)
        /\ req[p].region = "br" =>
              /\ Len(loc[p].selected_jobs) <= 5
              /\ \A i \in 1..Len(loc[p].selected_jobs) : IsBrPosting(loc[p].selected_jobs[i])
              /\ \A i \in 1..Len(loc[p].shown) : IsBrPosting(loc[p].shown[i])

\* a completed 'br' search whose oracle also named an INT posting and which
\* returned the 5 BR postings
C11_Witness ==
    \E p \in Procs :
        /\ Completed(p)
        /\ req[p].region = "br"
        /\ loc[p].oracle = TopList(6)
        /\ Len(loc[p].selected_jobs) = 5
        /\ Len(loc[p].shown) = 5

(***************************************************************************)
(* JobFinder._infer_email called on its own, as _ensure_job_contacts calls  *)
(* it: company is a string, url is a string, "" when the posting has none. *)
(***************************************************************************)
CompanySpace == {"Acme Co", "Nubank", "BTG Pactual", "Stone  Co", "Acme\tCo", "empresa", ""}

UrlSpace == {"", "https://jobs.acme.com/x", "https://www.acme.com/x", "https://acme.com",
             "http://www.jobs.www.acme.com/a/b", "https://newww.acme.com/x",
             "acme.com/jobs", "https:///x", "//www.acme.com", "https://WWW.Acme.com/x",
             "https://acme.com?q=1", "https://user@acme.com:8080/x"}

InitContact ==
    /\ InitPipeline
    /\ job_finder /\ profile_exists
    /\ call \in {[company |-> c, url |-> u] : c \in CompanySpace, u \in UrlSpace}
    /\ ret = NoReturn

\* email = self._infer_email(company, url)
InferContact ==
    /\ ret.state = "none"
    /\ ret' = [state |-> "inferred", email |-> InferEmail(call.company, call.url)]
    /\ UNCHANGED << pipeline_vars, call >>

NextContact == InferContact

SpecContact == InitContact /\ [][NextContact]_vars

\* the network-authority component of a url: what stands between the first
\* "//" and the next "/", "?" or "#"; "" when the url has no "//"
Authority(url) ==
    IF ~Contains(url, "//") THEN ""
    ELSE SplitFirst(SplitFirst(SplitFirst(SplitLast(url, "//"), "/"), "?"), "#")

\* a leading "www." removed, nothing else
StripLeadingWww(host) ==
    IF Len(host) >= 4 /\ SubSeq(host, 1, 4) = "www." THEN SubSeq(host, 5, Len(host))
    ELSE host

\* every whitespace character removed
NoWhitespace(s) == Replace(Replace(Replace(s, " ", ""), "\t", ""), "\n", "")

\* the domain the rule names for (company, url)
RuleDomain(company, url) ==
    IF Authority(url) # "" THEN StripLeadingWww(Authority(url))
    ELSE NoWhitespace(Lower(company)) \o ".com"

\* C12: the contact of (company, url) is "talentos@" followed by the url's
\* network authority with only a leading "www." removed when the url is
\* present and parseable, else by lowercase(company) without whitespace and
\* ".com"; it is never empty.
C12_ContactFollowsRule ==
    ret.state = "inferred" =>
        /\ ret.email = "talentos@" \o RuleDomain(call.company, call.url)
        /\ ret.email # ""

\* the search of request p is past the call of the matching engine
ScoringLeft(p) == Emitted(p, "PENSAMENTO") /\ pc[p] # "scoring"

\* C14: a search that reaches the SCORING stage calls the oracle exactly once,
\* with the full region-filtered pool, and never a second time after a failure.
C14_OracleCalledOnce ==
    \A p \in Procs :
        /\ Len(loc[p].prompts) <= 1
        /\ \A n \in 1..Len(loc[p].prompts) : loc[p].prompts[n].jobs = loc[p].all_jobs
        /\ ScoringLeft(p) => Len(loc[p].prompts) = 1

\* the oracle of request p was called
Asked(p) == loc[p].prompts # << >>

\* C15: preferences never remove a posting from consideration: two searches of
\* the same region submit the same postings to the oracle and have the same
\* pool for the fallback whatever their preferences, so that with the same
\* oracle answer they select the same jobs.
C15_PreferencesKeepPool ==
    \A p, q \in Procs :
        (Asked(p) /\ Asked(q) /\ req[p].region = req[q].region) =>
            /\ loc[p].prompts[1].jobs = loc[q].prompts[1].jobs
            /\ loc[p].all_jobs = loc[q].all_jobs
            /\ (loc[p].oracle = loc[q].oracle /\ ScoringLeft(p) /\ ScoringLeft(q))
                  => loc[p].selected_jobs = loc[q].selected_jobs

\* two completed searches of both regions, one without preferences and one
\* with, both ranked by the fallback
C15_Witness ==
    /\ Completed("r1") /\ Completed("r2")
    /\ req["r1"].region = "both" /\ req["r2"].region = "both"
    /\ req["r1"].preferences = NoPreferences
    /\ req["r2"].preferences = GoodPrefs
    /\ loc["r1"].oracle = OracleRaise /\ loc["r2"].oracle = OracleRaise
    /\ Len(loc["r2"].selected_jobs) = 5

\* request p was refused: no job_finder (OracleUnavailable) or no profile
\* file (ProfileMissing)
Refused(p) == pc[p] # "idle" /\ (~job_finder \/ ~profile_exists)

\* C16: a search refused for a missing profile or an unconfigured ranking
\* service emits exactly one error event followed by the end-of-stream signal,
\* calls no oracle and leaves the ResultCache as it was.
C16_RefusalIsTerminal ==
    \A p \in Procs :
        Refused(p) =>
            /\ pc[p] = "closed" => stream[p] = << "ERRO", "END" >>
            /\ loc[p].prompts = << >>
            /\ cache_file = NoFile

\* the payloads of the writes in progress: save_jobs_cache has opened the file
\* and not yet returned
BeingWritten == {loc[p].payload : p \in {q \in Procs : pc[q] = "dump"}}

\* C17: a ResultCache write is atomic for a reader: a read that runs while a
\* write is in progress returns the complete previous value or the complete
\* new value, never an error, an empty or a partly written content.
C17_ReadSeesWholeValue ==
    [][ReadCache =>
          /\ last_read'.status = "ok"
          /\ last_read'.value \in {last_written} \cup BeingWritten]_vars

\* every search has finished and at least one of them wrote the cache
AllFinished ==
    /\ \A p \in Procs : pc[p] \in {"closed", "aborted"}
    /\ last_writer # "none"

\* C18: when several searches complete concurrently the last writer wins:
\* once all have finished the ResultCache holds exactly the payload of the
\* write that happened last, never a mixture of two payloads.
C18_LastWriterWins ==
    AllFinished =>
        /\ last_written = loc[last_writer].payload
        /\ LoadJobsCache(cache_file) = [status |-> "ok", value |-> last_written]

(***************************************************************************)
(* Searches whose consumer may disconnect.                                 *)
(***************************************************************************)
NextCancel ==
    \/ \E p \in Procs : ArriveRace(p) \/ AnswerRace(p) \/ Generator(p) \/ WriteFails(p)
    \/ ReadCache

SpecCancel == Init /\ [][NextCancel]_vars

\* C19: once a write attempt has detected that the consumer is gone, the
\* pipeline of that request does nothing more: no further event, no oracle
\* call, no ResultCache write, and it does not end in an application error.
C19_NoWorkAfterDisconnect ==
    [][\A p \in Procs :
          /\ pc[p] = "cancelled" => pc'[p] = "cancelled"
          /\ pc'[p] = "cancelled" =>
              /\ stream'[p] = stream[p]
              /\ loc'[p] = loc[p]
              /\ cache_file' # cache_file => last_writer' # p
              /\ last_results' # last_results => \E q \in Procs \ {p} : pc[q] = "scoring"
              /\ pc[p] \notin {"aborted", "closed", "dump", "end"}]_vars

\* a search cut before its oracle call, and another that completed and wrote
\* the cache after it
C19_Witness ==
    \E p, q \in Procs :
        /\ pc[p] = "cancelled"
        /\ Emitted(p, "PENSAMENTO")
        /\ ~Asked(p)
        /\ Completed(q)
        /\ last_writer = q

(***************************************************************************)
(* Searches served one at a time by a server that keeps running their      *)
(* generators; the oracle is an outside service and owes no answer.        *)
(***************************************************************************)
ArriveWait(p) ==
    /\ Alone(p)
    /\ \E w \in BOOLEAN, r \in {"br", "int", "both"}, m \in {"3", "10"} :
          Request(p, w, r, m, NoPreferences)

NextWait == \E p \in Procs : ArriveWait(p) \/ AnswerRace(p) \/ Generator(p)

SpecWait ==
    /\ Init
    /\ [][NextWait]_vars
    /\ \A p \in Procs : WF_vars(Generator(p))

\* C20: the oracle call is bounded in time: a search waiting for the oracle
\* gets out of the call even when the oracle never answers, and its stream
\* reaches the terminal event and the end-of-stream signal.
C20_OracleCallTimesOut ==
    \A p \in Procs : (pc[p] = "scoring") ~> Delivered(p)

(***************************************************************************)
(* Claims about the transport variants and the order of write and marker.  *)
(***************************************************************************)
\* the handler of request p has answered and what it returned has run to its end
Answered(p) == pc[p] = "closed"

\* C21: whichever variant starts the search (push: GET, wants_stream; pull:
\* POST without the event-stream Accept header), the answer is the narration
\* ended by a terminal marker event and the end-of-stream signal, on success
\* as on a missing profile or an unconfigured ranking service.
C21_BothVariantsDeliverTerminal ==
    \A p \in Procs : Answered(p) => (response[p] = "stream" /\ Delivered(p))

(***************************************************************************)
(* suggest_job_keywords_api: the keywords computed from a profile.         *)
(***************************************************************************)
Whitespace == {" ", "\t", "\n"}

RECURSIVE SplitWords(_, _)
\* s.split(): the maximal runs of characters that are not whitespace
SplitWords(s, cur) ==
    IF s = "" THEN (IF cur = "" THEN << >> ELSE << cur >>)
    ELSE LET c == SubSeq(s, 1, 1)
             rest == SubSeq(s, 2, Len(s))
         IN  IF c \in Whitespace
             THEN (IF cur = "" THEN << >> ELSE << cur >>) \o SplitWords(rest, "")
             ELSE SplitWords(rest, cur \o c)

RECURSIVE LStrip(_)
LStrip(s) ==
    IF s # "" /\ SubSeq(s, 1, 1) \in Whitespace THEN LStrip(SubSeq(s, 2, Len(s))) ELSE s

RECURSIVE RStrip(_)
RStrip(s) ==
    IF s # "" /\ SubSeq(s, Len(s), Len(s)) \in Whitespace
    THEN RStrip(SubSeq(s, 1, Len(s) - 1)) ELSE s

\* s.strip()
Strip(s) == LStrip(RStrip(s))

\* [p.strip() for p in title.replace('/', ' ').split() if len(p.strip()) > 2]
TitleWords(title) ==
    LET parts == SplitWords(Replace(title, "/", " "), "")
        kept == SelectSeq(parts, LAMBDA w : Len(Strip(w)) > 2)
    IN  [i \in 1..Len(kept) |-> Strip(kept[i])]

RECURSIVE Normalize(_, _)
\* the loop "for k in keywords": strip, lower, keep what is new and not empty
Normalize(keywords, normalized) ==
    IF keywords = << >> THEN normalized
    ELSE LET k == Lower(Strip(Head(keywords)))
         IN  Normalize(Tail(keywords),
                       IF k # "" /\ \A i \in 1..Len(normalized) : normalized[i] # k
                       THEN Append(normalized, k) ELSE normalized)

RECURSIVE LowerAll(_)
LowerAll(keywords) ==
    IF keywords = << >> THEN << >>
    ELSE << Lower(Strip(Head(keywords))) >> \o LowerAll(Tail(keywords))

\* mutant: the keywords are normalized but repeated ones are kept
SuggestKeywordsRepeated(title, skills) ==
    Take(LowerAll((IF title # "" THEN TitleWords(title) ELSE << >>) \o skills), 15)

\* the "keywords" of the answer for a profile with this title and these skills
SuggestKeywords(title, skills) ==
    Take(Normalize((IF title # "" THEN TitleWords(title) ELSE << >>) \o skills, << >>), 15)

MaxSkills == 17

\* n skills with different names
ManySkills(n) == [i \in 1..n |-> "Skill" \o SubSeq(UpperChars, i, i)]

TitleSpace == {"", "Senior Python/Go Developer", "QA de Dados", "  Dev\tOps  Lead ",
               "Python Developer Python"}

SkillsSpace ==
    {ManySkills(n) : n \in 0..MaxSkills}
        \cup {<< "Python", "python", " SQL ", "", "Go", "DEVELOPER", "sql" >>,
              << "C", "Go", "R" >>,
              << "Dados", "Lead", "Senior" >> \o ManySkills(13)}

InitKeywords ==
    /\ InitPipeline
    /\ ~job_finder /\ profile_exists
    /\ call \in {[title |-> t, skills |-> s] : t \in TitleSpace, s \in SkillsSpace}
    /\ ret = NoReturn

\* GET /api/jobs/suggest-keywords
SuggestJobKeywords ==
    /\ ret.state = "none"
    /\ ret' = [state |-> "keywords", keywords |-> SuggestKeywords(call.title, call.skills)]
    /\ UNCHANGED << pipeline_vars, call >>

NextKeywords == SuggestJobKeywords

SpecKeywords == InitKeywords /\ [][NextKeywords]_vars

\* the tokens the profile offers, in order: its title words longer than 2
\* characters, then its skills, each trimmed and lowercased
Offered ==
    LET words == SplitWords(Replace(call.title, "/", " "), "")
        long == SelectSeq(words, LAMBDA w : Len(w) > 2)
    IN  [i \in 1..Len(long) |-> Lower(long[i])]
            \o [i \in 1..Len(call.skills) |-> Lower(Strip(call.skills[i]))]

\* position of the first occurrence of token t in the sequence offered, 0 if none
FirstOffer(offered, t) ==
    LET at == {k \in 1..Len(offered) : offered[k] = t}
    IN  IF at = {} THEN 0 ELSE CHOOSE k \in at : \A m \in at : k <= m

\* C22: keyword suggestion returns at most 15 tokens, each lowercased, none
\* twice: the title words longer than 2 characters in title order, then the
\* skills in skill order, nothing left out before the 15th.
C22_KeywordsNormalized ==
    ret.state = "keywords" =>
        LET r == ret.keywords
            offered == Offered
            first == [i \in 1..Len(r) |-> FirstOffer(offered, r[i])]
            taken == {first[i] : i \in 1..Len(r)}
        IN  /\ Len(r) <= 15
            /\ \A i \in 1..Len(r) : r[i] = Lower(r[i]) /\ r[i] # ""
            /\ \A i \in 1..Len(r) : first[i] # 0
            /\ \A i \in 1..(Len(r) - 1) : first[i] < first[i + 1]
            /\ \A k \in 1..Len(offered) :
                  (offered[k] # "" /\ (Len(r) < 15 \/ k < first[Len(r)]))
                      => FirstOffer(offered, offered[k]) \in taken

\* a profile offering more than 15 tokens, some of them twice, answered with 15
C22_Witness ==
    /\ ret.state = "keywords"
    /\ Len(ret.keywords) = 15
    /\ Len(Offered) > 15
    /\ \E k, m \in 1..Len(Offered) : k < m /\ Offered[k] = Offered[m]

(***************************************************************************)
(* Claims about the ranked jobs the engine and the contact step return.    *)
(***************************************************************************)
\* C23: in every result list the rank of each job is its 1-based position in
\* the list, on the oracle path and on the fallback path.
C23_RankIsPosition ==
    ret.state = "done" =>
        \A i \in 1..Len(ret.results) :
            "rank" \in DOMAIN ret.results[i] /\ ret.results[i].rank = i

\* a result of two reconciled items, the second named by an oracle item that
\* came with a rank of its own
C23_Witness ==
    /\ ret.state = "done"
    /\ call.oracle.kind = "list"
    /\ Len(call.oracle.items) = 2
    /\ call.oracle.items[2] = WithRank(6)
    /\ Len(ret.results) = 2
    /\ ret.results[2].company = "Google"

\* C24: the apply_email of every ranked job is derived: it is not empty and it
\* is what _infer_email gives for the job's company and url, whatever keys the
\* oracle put into its items.
C24_EmailIsDerived ==
    ret.state = "done" =>
        \A i \in 1..Len(ret.results) :
            /\ ret.results[i].apply_email # ""
            /\ ret.results[i].apply_email =
                   InferEmail(ret.results[i].company, ret.results[i].url)

\* no search has started after that of request p (requests arrive r1, then r2)
Latest(p) == p = "r2" \/ pc["r2"] = "idle"

\* C25: on the success path the ResultCache is overwritten before the terminal
\* marker is delivered: once the marker of a search is out, a read of the
\* cache gives the results of that search, not what the cache held before.
C25_CacheWrittenBeforeMarker ==
    \A p \in Procs :
        (Emitted(p, "CONCLUIDO") /\ Latest(p)) =>
            /\ LoadJobsCache(cache_file).status = "ok"
            /\ LoadJobsCache(cache_file).value.results = loc[p].selected_jobs

\* request p has built the payload of its cache write
PayloadBuilt(p) == pc[p] \in {"dump", "end"} \/ Completed(p)

\* C26: with searches running concurrently every pipeline narrates and writes
\* the ranking it computed itself: the jobs it has narrated are the first of
\* its own selected_jobs and the results of its payload are its own
\* selected_jobs, never those of another pipeline.
C26_OwnRankingNarratedAndWritten ==
    \A p \in Procs :
        /\ loc[p].shown = Take(loc[p].selected_jobs, Len(loc[p].shown))
        /\ PayloadBuilt(p) => loc[p].payload.results = loc[p].selected_jobs

\* the generator of request p ended in an exception
Failed(p) == pc[p] = "aborted"

\* C27: a failure raised in a pipeline state other than DONE takes the pipeline
\* to ERROR: the stream ends with an error terminal marker event followed by
\* the end-of-stream signal, never silently.
C27_FailureEndsWithErrorMarker ==
    \A p \in Procs :
        Failed(p) =>
            /\ Len(stream[p]) >= 2
            /\ stream[p][Len(stream[p])] = "END"
            /\ stream[p][Len(stream[p]) - 1] = "ERRO"

(***************************************************************************)
(* Claims about the reconciliation of oracle items (SpecMatch).            *)
(***************************************************************************)
\* the oracle returned a list of objects that all have a title and a company
WellFormedList ==
    /\ call.oracle.kind = "list"
    /\ \A n \in 1..Len(call.oracle.items) :
          {"title", "company"} \subseteq DOMAIN call.oracle.items[n]

\* some pool posting has exactly the company and the title of the item
ExactMatch(item) ==
    \E i \in 1..Len(call.jobs) :
        /\ call.jobs[i].company = item.company
        /\ call.jobs[i].title = item.title

\* C28: when the oracle returns k >= 1 items that all reconcile to pool
\* postings, the internal ranking the engine returns has min(k, 10) items.
C28_InternalRankingUpToTen ==
    (Returned /\ WellFormedList /\ call.oracle.items # << >>
        /\ \A n \in 1..Len(call.oracle.items) : ExactMatch(call.oracle.items[n]))
        => Len(ret.selected) = Min(Len(call.oracle.items), 10)

\* C29: when at least one item of a well-formed oracle list matches a pool
\* posting by exactly equal company and title, the ranking is made of the
\* matching items in oracle order (the first five of them): each has the company
\* and title of its oracle item, carries the location, url, description and
\* posted of the pool posting with that company and title, and keeps the
\* oracle's score and reason; the items without a match are left out and the
\* fallback is not used.
C29_ReconciledByExactMatch ==
    (Returned /\ WellFormedList) =>
        LET items == call.oracle.items
            matched == {n \in 1..Len(items) : ExactMatch(items[n])}
            sel == ret.selected
        IN  matched # {} =>
                /\ Len(sel) = Min(Cardinality(matched), 5)
                /\ \A m \in 1..Len(sel) :
                      LET n == CHOOSE x \in matched :
                                   Cardinality({k \in matched : k < x}) = m - 1
                      IN  /\ sel[m].company = items[n].company
                          /\ sel[m].title = items[n].title
                          /\ \E i \in 1..Len(call.jobs) :
                                /\ call.jobs[i].company = sel[m].company
                                /\ call.jobs[i].title = sel[m].title
                                /\ PostingOf(sel[m]) = call.jobs[i]
                          /\ sel[m].reason = items[n].reason
                          /\ sel[m].reason # FallbackReason
                          /\ "score" \in DOMAIN items[n] => sel[m].score = items[n].score

\* an item naming a pool company under another title is left out and the item
\* after it, which came with a url and a location of its own, is returned with
\* the url and the location of its posting
C29_Witness ==
    /\ ret.state = "done"
    /\ call.oracle.kind = "list"
    /\ call.oracle.items = << WrongTitle, WithUrl(2) >>
    /\ Len(ret.results) = 1
    /\ ret.results[1].url = Catalog[2].url
    /\ ret.results[1].location = Catalog[2].location
    /\ ret.results[1].score = 90

(***************************************************************************)
(* Claims about the job pool (SpecMatch).                                  *)
(***************************************************************************)
\* the pools the catalog gives
CatalogPools == {AllJobs(region) : region \in RegionSpace}

\* C30: a search never modifies the job pool: through any sequence of
\* searches, on the oracle path and on the fallback path and after the contact
\* step, the pool a search is given is a pool of the catalog and the pool it
\* leaves is equal to it; no posting of the pool gets a score, reason, rank or
\* apply_email.
C30_PoolUnchanged ==
    /\ call.jobs \in CatalogPools
    /\ ret.state # "none" =>
          /\ ret.pool = call.jobs
          /\ \A i \in 1..Len(ret.pool) : DOMAIN ret.pool[i] = PostingKeys

\* a search that took the fallback and added contacts to its five jobs
C30_Witness ==
    /\ ret.state = "done"
    /\ call.oracle.kind = "raise"
    /\ Len(call.jobs) = 10
    /\ Len(ret.results) = 5
    /\ \A i \in 1..5 : {"score", "apply_email", "rank"} \subseteq DOMAIN ret.results[i]
    /\ Len(ret.pool) = 10

====
